---- MODULE Spec2Model ----
(***************************************************************************)
(* tailr (src/tailr/src/lib.rs): the selector parser parse_num, the offset *)
(* computation get_start_index and the tail engine run.                    *)
(*                                                                         *)
(* Integers are scaled: the program's i64 / u64 are IntBits wide here, so  *)
(* that the signed boundary (i64::MIN, i64::MAX) is inside the explored    *)
(* range.  Texts are sequences of one-character strings, file contents are *)
(* sequences of byte values.                                               *)
(***************************************************************************)
EXTENDS Integers, Sequences, FiniteSets, TLC

\* ------------------------------------------------------------------ bounds
\* width of the model's i64 / u64
IntBits == 5
\* longest selector text handed to parse_num
MaxTextLen == 3
\* largest count written on the command line of a run (besides the default
\* and the boundary i64::MIN)
MaxCount == 3
\* most file targets of a run
MaxFiles == 2
\* longest file content, in bytes
MaxFileLen == 2

\* ------------------------------------------------------------------ state
VARIABLES
  overflow_checks,    \* build profile: TRUE = integer overflow panics (debug)
  PLUS_OR_MINUS_RE,   \* OnceCell<Regex>: "" while unset, else the pattern
  PLUS_ZERO_RE,       \* OnceCell<Regex>: "" while unset, else the pattern
  val,                \* the text parse_num is called with
  parsed,             \* the result of the latest parse_num(val) call
  take_val,           \* get_start_index: the selection passed
  total,              \* get_start_index: the total passed
  start,              \* get_start_index: the value returned
  argv,               \* the command line: [lines, bytes, quiet, files]
  fs,                 \* the file system: name -> file
  config,             \* the result of get_args
  pc,                 \* where the program is: "args", "open", "count",
                      \* "print" or "exit"
  num,                \* run: index (from 0) of the target being processed
  totals,             \* run: the result of count_lines_bytes for that target
  stdout,             \* the output sink: the writes made, in order
  stderr,             \* the diagnostic channel: the lines written, in order
  result,             \* what the program ended with
  earlier             \* what earlier runs of run with this Config wrote and
                      \* returned, one record per run

cells == <<PLUS_OR_MINUS_RE, PLUS_ZERO_RE>>
parsevars == <<val, parsed>>
idxvars == <<take_val, total, start>>
runvars == <<argv, fs, config, pc, num, totals, stdout, stderr, result>>
vars == <<overflow_checks, cells, parsevars, idxvars, runvars, earlier>>

\* ------------------------------------------------------------------ integers
Pow2(k) == 2 ^ k
I64_MIN == -Pow2(IntBits - 1)
I64_MAX == Pow2(IntBits - 1) - 1
U64_MAX == Pow2(IntBits) - 1

\* two's complement wrap of a mathematical integer into the i64 range
wrap_i64(x) == ((x - I64_MIN) % Pow2(IntBits)) + I64_MIN

\* `x as u64` of an i64
as_u64(x) == x % Pow2(IntBits)

\* `-n` on i64: overflows for i64::MIN only; panics under overflow checks,
\* wraps otherwise
i64_neg(n) == [panic |-> (n = I64_MIN) /\ overflow_checks, v |-> wrap_i64(-n)]

\* i64::abs: overflows for i64::MIN only; panics under overflow checks,
\* returns i64::MIN otherwise
i64_abs(n) == [panic |-> (n = I64_MIN) /\ overflow_checks,
               v |-> IF n < 0 THEN wrap_i64(-n) ELSE n]

\* ------------------------------------------------------------------ values
PlusZero == [tag |-> "PlusZero"]
TakeNum(n) == [tag |-> "TakeNum", n |-> n]
TakeValue == {PlusZero} \cup {TakeNum(n) : n \in I64_MIN..I64_MAX}

None == [tag |-> "None"]
Some(x) == [tag |-> "Some", v |-> x]
Ok(x) == [tag |-> "Ok", v |-> x]
Err(e) == [tag |-> "Err", e |-> e]
\* the call did not return: the thread panicked
Panic == [tag |-> "Panic"]
\* no call made yet
Uncalled == [tag |-> "Uncalled"]

\* ------------------------------------------------------------------ texts
DigitChars == <<"0", "1", "2", "3", "4", "5", "6", "7", "8", "9">>
Digits == {DigitChars[i] : i \in 1..10}
Chars == Digits \cup {"+", "-", ".", "f"}
to_digit(c) == (CHOOSE i \in 1..10 : DigitChars[i] = c) - 1

SeqsUpTo(S, n) == UNION {[1..k -> S] : k \in 0..n}
Texts == SeqsUpTo(Chars, MaxTextLen)

Rest(s) == SubSeq(s, 2, Len(s))

\* ------------------------------------------------------------------ parser
\* str::parse::<i64>: the digit loop of from_str_radix with its checked
\* multiply and add (positive) or subtract (negative)
RECURSIVE parse_digits(_, _, _)
parse_digits(digits, is_positive, res) ==
  IF digits = <<>> THEN Ok(res)
  ELSE IF Head(digits) \notin Digits THEN Err("InvalidDigit")
  ELSE LET mul == res * 10
           x == to_digit(Head(digits))
           acc == IF is_positive THEN mul + x ELSE mul - x
       IN IF mul > I64_MAX \/ acc > I64_MAX THEN Err("PosOverflow")
          ELSE IF mul < I64_MIN \/ acc < I64_MIN THEN Err("NegOverflow")
          ELSE parse_digits(Rest(digits), is_positive, acc)

parse_i64(src) ==
  IF src = <<>> THEN Err("Empty")
  ELSE IF Head(src) \in {"+", "-"} /\ Rest(src) = <<>> THEN Err("InvalidDigit")
  ELSE IF Head(src) = "+" THEN parse_digits(Rest(src), TRUE, 0)
  ELSE IF Head(src) = "-" THEN parse_digits(Rest(src), FALSE, 0)
  ELSE parse_digits(src, TRUE, 0)

PLUS_OR_MINUS_PATTERN == "^[+-][0-9]+$"
PLUS_ZERO_PATTERN == "^[+]0$"

\* Regex::is_match for the two patterns the program compiles
is_match(re, text) ==
  IF re = PLUS_OR_MINUS_PATTERN
    THEN /\ Len(text) >= 2
         /\ text[1] \in {"+", "-"}
         /\ \A i \in 2..Len(text) : text[i] \in Digits
    ELSE /\ re = PLUS_ZERO_PATTERN
         /\ text = <<"+", "0">>

\* OnceCell::get_or_init: the stored value, set from `pattern` on first use
get_or_init(cell, pattern) == IF cell = "" THEN pattern ELSE cell

\* parse_num with the bare case stored as read (no negation)
parse_num_bare_kept(v) ==
  LET plus_or_minus == get_or_init(PLUS_OR_MINUS_RE, PLUS_OR_MINUS_PATTERN)
      plus_zero == get_or_init(PLUS_ZERO_RE, PLUS_ZERO_PATTERN)
      r == parse_i64(v)
  IN IF r.tag = "Ok" /\ is_match(plus_zero, v) THEN Ok(PlusZero)
     ELSE IF r.tag = "Ok" /\ is_match(plus_or_minus, v) THEN Ok(TakeNum(r.v))
     ELSE IF r.tag = "Ok" THEN Ok(TakeNum(r.v))
     ELSE Err(v)

\* parse_num without the signed arm: every parsed value is negated
parse_num_always_negated(v) ==
  LET plus_zero == get_or_init(PLUS_ZERO_RE, PLUS_ZERO_PATTERN)
      r == parse_i64(v)
  IN IF r.tag = "Ok" /\ is_match(plus_zero, v) THEN Ok(PlusZero)
     ELSE IF r.tag = "Ok"
       THEN IF i64_neg(r.v).panic THEN Panic ELSE Ok(TakeNum(i64_neg(r.v).v))
     ELSE Err(v)

\* parse_num whose error carries the integer parser's message, not the text
parse_num_inner_error(v) ==
  LET plus_or_minus == get_or_init(PLUS_OR_MINUS_RE, PLUS_OR_MINUS_PATTERN)
      plus_zero == get_or_init(PLUS_ZERO_RE, PLUS_ZERO_PATTERN)
      r == parse_i64(v)
  IN IF r.tag = "Ok" /\ is_match(plus_zero, v) THEN Ok(PlusZero)
     ELSE IF r.tag = "Ok" /\ is_match(plus_or_minus, v) THEN Ok(TakeNum(r.v))
     ELSE IF r.tag = "Ok"
       THEN IF i64_neg(r.v).panic THEN Panic ELSE Ok(TakeNum(i64_neg(r.v).v))
     ELSE Err(<<r.e>>)

\* parse_num reading a '-' text as its magnitude, negated afterwards
parse_num_negate_magnitude(v) ==
  LET plus_or_minus == get_or_init(PLUS_OR_MINUS_RE, PLUS_OR_MINUS_PATTERN)
      plus_zero == get_or_init(PLUS_ZERO_RE, PLUS_ZERO_PATTERN)
      minus == v # <<>> /\ Head(v) = "-"
      r == IF minus THEN parse_i64(Rest(v)) ELSE parse_i64(v)
  IN IF r.tag = "Ok" /\ is_match(plus_zero, v) THEN Ok(PlusZero)
     ELSE IF r.tag = "Ok" /\ is_match(plus_or_minus, v) /\ ~minus
       THEN Ok(TakeNum(r.v))
     ELSE IF r.tag = "Ok"
       THEN IF i64_neg(r.v).panic THEN Panic ELSE Ok(TakeNum(i64_neg(r.v).v))
     ELSE Err(v)

\* parse_num reading the cells as they are (get instead of get_or_init)
parse_num_raw_cells(v) ==
  LET plus_or_minus == PLUS_OR_MINUS_RE
      plus_zero == PLUS_ZERO_RE
      r == parse_i64(v)
  IN IF r.tag = "Ok" /\ is_match(plus_zero, v) THEN Ok(PlusZero)
     ELSE IF r.tag = "Ok" /\ is_match(plus_or_minus, v) THEN Ok(TakeNum(r.v))
     ELSE IF r.tag = "Ok"
       THEN IF i64_neg(r.v).panic THEN Panic ELSE Ok(TakeNum(i64_neg(r.v).v))
     ELSE Err(v)

parse_num(v) ==
  LET plus_or_minus == get_or_init(PLUS_OR_MINUS_RE, PLUS_OR_MINUS_PATTERN)
      plus_zero == get_or_init(PLUS_ZERO_RE, PLUS_ZERO_PATTERN)
      r == parse_i64(v)
  IN IF r.tag = "Ok" /\ is_match(plus_zero, v) THEN Ok(PlusZero)
     ELSE IF r.tag = "Ok" /\ is_match(plus_or_minus, v) THEN Ok(TakeNum(r.v))
     ELSE IF r.tag = "Ok"
       THEN IF i64_neg(r.v).panic THEN Panic ELSE Ok(TakeNum(i64_neg(r.v).v))
     ELSE Err(v)

\* ------------------------------------------------------------------ offset
\* get_start_index with the first guard off by one (n >= total)
get_start_index_ge(tv, tot) ==
  IF tv.tag = "TakeNum"
    THEN LET n == tv.n IN
         IF n > 0 /\ n >= tot THEN None
         ELSE IF n < 0 /\ i64_abs(n).panic THEN Panic
         ELSE IF n < 0 /\ i64_abs(n).v > tot THEN Some(0)
         ELSE IF n > 0 THEN Some(as_u64(n - 1))
         ELSE IF n < 0 THEN Some(as_u64(tot + n))
         ELSE None
    ELSE IF tot = 0 THEN None ELSE Some(0)

\* get_start_index subtracting the (negative) count instead of adding it
get_start_index_sub(tv, tot) ==
  IF tv.tag = "TakeNum"
    THEN LET n == tv.n IN
         IF n > 0 /\ n > tot THEN None
         ELSE IF n < 0 /\ i64_abs(n).panic THEN Panic
         ELSE IF n < 0 /\ i64_abs(n).v > tot THEN Some(0)
         ELSE IF n > 0 THEN Some(as_u64(n - 1))
         ELSE IF n < 0 THEN Some(as_u64(tot - n))
         ELSE None
    ELSE IF tot = 0 THEN None ELSE Some(0)

\* get_start_index treating a count of zero as "print everything"
get_start_index_zero_all(tv, tot) ==
  IF tv.tag = "TakeNum"
    THEN LET n == tv.n IN
         IF n > 0 /\ n > tot THEN None
         ELSE IF n < 0 /\ i64_abs(n).panic THEN Panic
         ELSE IF n < 0 /\ i64_abs(n).v > tot THEN Some(0)
         ELSE IF n > 0 THEN Some(as_u64(n - 1))
         ELSE IF n < 0 THEN Some(as_u64(tot + n))
         ELSE Some(0)
    ELSE IF tot = 0 THEN None ELSE Some(0)

\* get_start_index without the empty-total test of the +0 arm
get_start_index_plus_zero_always(tv, tot) ==
  IF tv.tag = "TakeNum"
    THEN LET n == tv.n IN
         IF n > 0 /\ n > tot THEN None
         ELSE IF n < 0 /\ i64_abs(n).panic THEN Panic
         ELSE IF n < 0 /\ i64_abs(n).v > tot THEN Some(0)
         ELSE IF n > 0 THEN Some(as_u64(n - 1))
         ELSE IF n < 0 THEN Some(as_u64(tot + n))
         ELSE None
    ELSE Some(0)

\* get_start_index returning None for every selection when total is 0
get_start_index_empty_none(tv, tot) ==
  IF tot = 0 THEN None
  ELSE IF tv.tag = "TakeNum"
    THEN LET n == tv.n IN
         IF n > 0 /\ n > tot THEN None
         ELSE IF n < 0 /\ i64_abs(n).panic THEN Panic
         ELSE IF n < 0 /\ i64_abs(n).v > tot THEN Some(0)
         ELSE IF n > 0 THEN Some(as_u64(n - 1))
         ELSE IF n < 0 THEN Some(as_u64(tot + n))
         ELSE None
    ELSE Some(0)

\* get_start_index with PlusZero giving the index of the last unit
get_start_index_plus_zero_last(tv, tot) ==
  IF tv.tag = "TakeNum"
    THEN LET n == tv.n IN
         IF n > 0 /\ n > tot THEN None
         ELSE IF n < 0 /\ i64_abs(n).panic THEN Panic
         ELSE IF n < 0 /\ i64_abs(n).v > tot THEN Some(0)
         ELSE IF n > 0 THEN Some(as_u64(n - 1))
         ELSE IF n < 0 THEN Some(as_u64(tot + n))
         ELSE None
    ELSE IF tot = 0 THEN None ELSE Some(tot - 1)

get_start_index(tv, tot) ==
  IF tv.tag = "TakeNum"
    THEN LET n == tv.n IN
         IF n > 0 /\ n > tot THEN None
         ELSE IF n < 0 /\ i64_abs(n).panic THEN Panic
         ELSE IF n < 0 /\ i64_abs(n).v > tot THEN Some(0)
         ELSE IF n > 0 THEN Some(as_u64(n - 1))
         ELSE IF n < 0 THEN Some(as_u64(tot + n))
         ELSE None
    ELSE IF tot = 0 THEN None ELSE Some(0)

\* ------------------------------------------------------------------ files
LF == 10
\* the bytes file contents are made of: '\n', 'a', and the two bytes 0xC3
\* 0xA9 of the UTF-8 encoding of U+00E9
Bytes == {10, 97, 195, 169}
Contents == SeqsUpTo(Bytes, MaxFileLen)

RegularFile(data) == [kind |-> "file", data |-> data]
Missing == [kind |-> "missing"]
Files == {Missing} \cup {RegularFile(d) : d \in Contents}

\* the display name of the i-th target: 'f' and a digit
Name(i) == <<102, 48 + i>>
Names(n) == {Name(i) : i \in 1..n}
Targets(n) == [i \in 1..n |-> Name(i)]

Drop(s, k) == SubSeq(s, k + 1, Len(s))

\* U+FFFD as UTF-8
REPLACEMENT == <<239, 191, 189>>

\* whether a byte sequence is UTF-8 (one- and two-byte sequences: the byte
\* set holds no longer ones)
RECURSIVE is_utf8(_)
is_utf8(b) ==
  IF b = <<>> THEN TRUE
  ELSE IF b[1] < 128 THEN is_utf8(Drop(b, 1))
  ELSE IF b[1] \in 194..223 /\ Len(b) >= 2 /\ b[2] \in 128..191
    THEN is_utf8(Drop(b, 2))
  ELSE FALSE

\* String::from_utf8_lossy: every byte that starts no valid sequence becomes
\* U+FFFD
RECURSIVE from_utf8_lossy(_)
from_utf8_lossy(b) ==
  IF b = <<>> THEN <<>>
  ELSE IF b[1] < 128 THEN <<b[1]>> \o from_utf8_lossy(Drop(b, 1))
  ELSE IF b[1] \in 194..223 /\ Len(b) >= 2 /\ b[2] \in 128..191
    THEN <<b[1], b[2]>> \o from_utf8_lossy(Drop(b, 2))
  ELSE REPLACEMENT \o from_utf8_lossy(Drop(b, 1))

\* read_until(b'\n') / read_line: the number of bytes read from `rest`,
\* through the first '\n' or to the end of the stream
bytes_read(rest) ==
  IF \E i \in 1..Len(rest) : rest[i] = LF
    THEN CHOOSE i \in 1..Len(rest) :
           rest[i] = LF /\ \A j \in 1..(i - 1) : rest[j] # LF
    ELSE Len(rest)

\* the loop of count_lines_bytes; read_line fails on a line that is not UTF-8.
\* `lines` is an i32 and `bytes` an i64 in the program; contents of at most
\* MaxFileLen bytes reach neither width, so the counters are plain integers
RECURSIVE count_loop(_, _, _)
count_loop(rest, lines, bytes) ==
  IF bytes_read(rest) = 0 THEN Ok(<<lines, bytes>>)
  ELSE IF ~is_utf8(SubSeq(rest, 1, bytes_read(rest))) THEN Err("InvalidData")
  ELSE count_loop(Drop(rest, bytes_read(rest)), lines + 1,
                  bytes + bytes_read(rest))

count_lines_bytes(path) ==
  IF fs[path].kind # "file" THEN Err("NotFound")
  ELSE count_loop(fs[path].data, 0, 0)

\* the loop of print_lines printing the selected lines last to first
RECURSIVE print_lines_loop_reversed(_, _, _)
print_lines_loop_reversed(rest, line_num, from) ==
  IF bytes_read(rest) = 0 THEN <<>>
  ELSE print_lines_loop_reversed(Drop(rest, bytes_read(rest)), line_num + 1,
                                 from)
       \o (IF line_num >= from
             THEN <<from_utf8_lossy(SubSeq(rest, 1, bytes_read(rest)))>>
             ELSE <<>>)

\* the loop of print_lines: what it prints, one element per print! call
RECURSIVE print_lines_loop(_, _, _)
print_lines_loop(rest, line_num, from) ==
  IF bytes_read(rest) = 0 THEN <<>>
  ELSE (IF line_num >= from
          THEN <<from_utf8_lossy(SubSeq(rest, 1, bytes_read(rest)))>>
          ELSE <<>>)
       \o print_lines_loop(Drop(rest, bytes_read(rest)), line_num + 1, from)

\* print_lines on a stream holding `data`: [res, out], out the print! calls
print_lines(data, num_lines, total_lines) ==
  LET s == get_start_index(num_lines, total_lines)
  IN IF s = Panic THEN [res |-> Panic, out |-> <<>>]
     ELSE IF s = None THEN [res |-> Ok(<<>>), out |-> <<>>]
     ELSE [res |-> Ok(<<>>), out |-> print_lines_loop(data, 0, s.v)]

\* File::seek(SeekFrom::Start(pos)): the offset reaches lseek as a signed
\* 64-bit value, and a negative one is refused
seek(pos) == IF pos > I64_MAX THEN Err("InvalidInput") ELSE Ok(pos)

\* print_bytes on a stream holding `data`: [res, out, seeks], out the print!
\* calls and seeks the offsets handed to file.seek
print_bytes(data, num_bytes, total_bytes) ==
  LET s == get_start_index(num_bytes, total_bytes)
  IN IF s = Panic THEN [res |-> Panic, out |-> <<>>, seeks |-> <<>>]
     ELSE IF s = None THEN [res |-> Ok(<<>>), out |-> <<>>, seeks |-> <<>>]
     ELSE IF seek(s.v).tag = "Err"
       THEN [res |-> seek(s.v), out |-> <<>>, seeks |-> <<s.v>>]
     ELSE LET buf == Drop(data, s.v)
          IN [res |-> Ok(<<>>),
              out |-> IF buf # <<>> THEN <<from_utf8_lossy(buf)>> ELSE <<>>,
              seeks |-> <<s.v>>]

\* ------------------------------------------------------------------ arguments
\* i64's Display
RECURSIVE digits_of(_)
digits_of(n) ==
  IF n < 10 THEN <<DigitChars[n + 1]>>
  ELSE digits_of(n \div 10) \o <<DigitChars[(n % 10) + 1]>>
to_string(n) == IF n < 0 THEN <<"-">> \o digits_of(-n) ELSE digits_of(n)

\* default_value("10") of --lines
DEFAULT_LINES == <<"1", "0">>

\* the count texts of the runs explored: k, +k and -k for k up to MaxCount,
\* i64::MIN, and a text that is no integer
CountTexts ==
  UNION {{to_string(k), <<"+">> \o to_string(k), <<"-">> \o to_string(k)} :
           k \in 0..MaxCount}
  \cup {to_string(I64_MIN), <<"f">>}

\* the command lines clap accepts: at least one file, and --bytes only
\* without --lines (conflicts_with)
CommandLines(n) ==
  {[lines |-> l, bytes |-> b, quiet |-> q, files |-> Targets(n)] :
     l \in {None} \cup {Some(t) : t \in CountTexts},
     b \in {None} \cup {Some(t) : t \in CountTexts},
     q \in BOOLEAN}

\* get_args reporting a rejected byte count with the line count's message
get_args_line_message(a) ==
  LET lines == parse_num(IF a.lines = None THEN DEFAULT_LINES ELSE a.lines.v)
      bytes == IF a.bytes = None THEN None ELSE Some(parse_num(a.bytes.v))
  IN IF lines.tag = "Err" THEN Err(<<"illegal line count -- ", lines.e>>)
     ELSE IF lines.tag = "Panic" THEN Panic
     ELSE IF bytes # None /\ bytes.v.tag = "Err"
       THEN Err(<<"illegal line count -- ", bytes.v.e>>)
     ELSE IF bytes # None /\ bytes.v.tag = "Panic" THEN Panic
     ELSE Ok([files |-> a.files,
              lines |-> lines.v,
              bytes |-> IF bytes = None THEN None ELSE Some(bytes.v.v),
              quiet |-> a.quiet])

get_args(a) ==
  LET lines == parse_num(IF a.lines = None THEN DEFAULT_LINES ELSE a.lines.v)
      bytes == IF a.bytes = None THEN None ELSE Some(parse_num(a.bytes.v))
  IN IF lines.tag = "Err" THEN Err(<<"illegal line count -- ", lines.e>>)
     ELSE IF lines.tag = "Panic" THEN Panic
     ELSE IF bytes # None /\ bytes.v.tag = "Err"
       THEN Err(<<"illegal byte count -- ", bytes.v.e>>)
     ELSE IF bytes # None /\ bytes.v.tag = "Panic" THEN Panic
     ELSE Ok([files |-> a.files,
              lines |-> lines.v,
              bytes |-> IF bytes = None THEN None ELSE Some(bytes.v.v),
              quiet |-> a.quiet])

\* ------------------------------------------------------------------ run
\* "==> " and " <=="
HEADER_OPEN == <<61, 61, 62, 32>>
HEADER_CLOSE == <<32, 60, 61, 61>>
\* header with the separating newline before every header, the first included
header_always_separated(n, path) ==
  <<LF>> \o HEADER_OPEN \o path \o HEADER_CLOSE \o <<LF>>

header(n, path) ==
  (IF n > 0 THEN <<LF>> ELSE <<>>) \o HEADER_OPEN \o path \o HEADER_CLOSE
  \o <<LF>>

\* one write to the output sink, made while processing target n
Write(n, kind, bytes) == [num |-> n, kind |-> kind, bytes |-> bytes]

num_files == Len(config.v.files)
filename == config.v.files[num + 1]

\* ------------------------------------------------------------------ specifications
CellsUnset == PLUS_OR_MINUS_RE = "" /\ PLUS_ZERO_RE = ""
ParseIdle == CellsUnset /\ val = <<>> /\ parsed = Uncalled
IdxIdle == take_val = PlusZero /\ total = 0 /\ start = Uncalled
RunIdle ==
  /\ argv = [lines |-> None, bytes |-> None, quiet |-> FALSE, files |-> <<>>]
  /\ fs = <<>>
  /\ config = Uncalled
  /\ pc = "args"
  /\ num = 0
  /\ totals = Uncalled
  /\ stdout = <<>>
  /\ stderr = <<>>
  /\ result = Uncalled
  /\ earlier = <<>>

\* parse_num called on any text, any number of times
InitParse ==
  /\ overflow_checks \in BOOLEAN
  /\ CellsUnset
  /\ val \in Texts
  /\ parsed = Uncalled
  /\ IdxIdle
  /\ RunIdle

ParseNum ==
  /\ parsed' = parse_num(val)
  /\ PLUS_OR_MINUS_RE' = get_or_init(PLUS_OR_MINUS_RE, PLUS_OR_MINUS_PATTERN)
  /\ PLUS_ZERO_RE' = get_or_init(PLUS_ZERO_RE, PLUS_ZERO_PATTERN)
  /\ UNCHANGED <<earlier, overflow_checks, val, idxvars, runvars>>

NextParse == ParseNum
SpecParse == InitParse /\ [][NextParse]_vars

\* get_start_index called on any selection and any non-negative total
InitIdx ==
  /\ overflow_checks \in BOOLEAN
  /\ ParseIdle
  /\ take_val \in TakeValue
  /\ total \in 0..I64_MAX
  /\ start = Uncalled
  /\ RunIdle

GetStartIndex ==
  /\ start = Uncalled
  /\ start' = get_start_index(take_val, total)
  /\ UNCHANGED <<earlier, overflow_checks, cells, parsevars, take_val, total, runvars>>

NextIdx == GetStartIndex
SpecIdx == InitIdx /\ [][NextIdx]_vars

\* the whole program: get_args, then run over the targets in order
Init ==
  /\ overflow_checks \in BOOLEAN
  /\ ParseIdle
  /\ IdxIdle
  /\ \E n \in 1..MaxFiles :
       /\ argv \in {a \in CommandLines(n) : a.lines = None \/ a.bytes = None}
       /\ fs \in [Names(n) -> Files]
  /\ config = Uncalled
  /\ pc = "args"
  /\ num = 0
  /\ totals = Uncalled
  /\ stdout = <<>>
  /\ stderr = <<>>
  /\ result = Uncalled
  /\ earlier = <<>>

\* get_args; main ends with its error, or calls run with the Config
GetArgs ==
  /\ pc = "args"
  /\ config' = get_args(argv)
  /\ PLUS_OR_MINUS_RE' = get_or_init(PLUS_OR_MINUS_RE, PLUS_OR_MINUS_PATTERN)
  /\ PLUS_ZERO_RE' = get_or_init(PLUS_ZERO_RE, PLUS_ZERO_PATTERN)
  /\ IF get_args(argv).tag = "Ok"
       THEN pc' = "open" /\ result' = result
       ELSE pc' = "exit" /\ result' = get_args(argv)
  /\ UNCHANGED <<earlier, overflow_checks, parsevars, idxvars, argv, fs, num, totals,
                 stdout, stderr>>

\* the end of one iteration of run's loop: the next target, or Ok(())
NextTarget ==
  /\ num' = num + 1
  /\ totals' = Uncalled
  /\ IF num + 1 < num_files
       THEN pc' = "open" /\ result' = result
       ELSE pc' = "exit" /\ result' = Ok(<<>>)

\* File::open fails: the diagnostic, and on to the next target
RunOpenErr ==
  /\ pc = "open"
  /\ fs[filename].kind # "file"
  /\ stderr' = Append(stderr, [file |-> filename, err |-> "NotFound"])
  /\ NextTarget
  /\ UNCHANGED <<earlier, overflow_checks, cells, parsevars, idxvars, argv, fs, config,
                 stdout>>

\* RunOpenOk with the header written whether or not --quiet was given
RunOpenOk_quiet_ignored ==
  /\ pc = "open"
  /\ fs[filename].kind = "file"
  /\ stdout' = IF num_files > 1
                 THEN Append(stdout, Write(num, "header", header(num, filename)))
                 ELSE stdout
  /\ pc' = "count"
  /\ UNCHANGED <<earlier, overflow_checks, cells, parsevars, idxvars, argv, fs, config,
                 num, totals, stderr, result>>

\* RunOpenOk with the separating newline decided by whether the process has
\* written before, earlier runs included
RunOpenOk_process_flag ==
  /\ pc = "open"
  /\ fs[filename].kind = "file"
  /\ stdout' = IF ~config.v.quiet /\ num_files > 1
                 THEN Append(stdout,
                             Write(num, "header",
                                   header(IF earlier # <<>> THEN 1 ELSE num,
                                          filename)))
                 ELSE stdout
  /\ pc' = "count"
  /\ UNCHANGED <<earlier, overflow_checks, cells, parsevars, idxvars, argv, fs,
                 config, num, totals, stderr, result>>

\* File::open succeeds: the header, when there are several targets
RunOpenOk ==
  /\ pc = "open"
  /\ fs[filename].kind = "file"
  /\ stdout' = IF ~config.v.quiet /\ num_files > 1
                 THEN Append(stdout, Write(num, "header", header(num, filename)))
                 ELSE stdout
  /\ pc' = "count"
  /\ UNCHANGED <<earlier, overflow_checks, cells, parsevars, idxvars, argv, fs, config,
                 num, totals, stderr, result>>

\* RunCount counting the first target of the list for every target
RunCount_first_file ==
  /\ pc = "count"
  /\ totals' = count_lines_bytes(config.v.files[1])
  /\ IF count_lines_bytes(config.v.files[1]).tag = "Ok"
       THEN pc' = "print" /\ result' = result
       ELSE pc' = "exit" /\ result' = count_lines_bytes(config.v.files[1])
  /\ UNCHANGED <<earlier, overflow_checks, cells, parsevars, idxvars, argv, fs,
                 config, num, stdout, stderr>>

\* count_lines_bytes(&filename)?
RunCount ==
  /\ pc = "count"
  /\ totals' = count_lines_bytes(filename)
  /\ IF count_lines_bytes(filename).tag = "Ok"
       THEN pc' = "print" /\ result' = result
       ELSE pc' = "exit" /\ result' = count_lines_bytes(filename)
  /\ UNCHANGED <<earlier, overflow_checks, cells, parsevars, idxvars, argv, fs, config,
                 num, stdout, stderr>>

\* the output pass with print_bytes given the line total
print_target_line_total ==
  IF config.v.bytes # None
    THEN print_bytes(fs[filename].data, config.v.bytes.v, totals.v[1])
    ELSE print_lines(fs[filename].data, config.v.lines, totals.v[1])

\* the output pass of the opened target: print_bytes(..)? when a byte count
\* was given, print_lines(..)? otherwise
print_target ==
  IF config.v.bytes # None
    THEN print_bytes(fs[filename].data, config.v.bytes.v, totals.v[2])
    ELSE print_lines(fs[filename].data, config.v.lines, totals.v[1])

RunPrint ==
  /\ pc = "print"
  /\ stdout' = stdout \o [i \in 1..Len(print_target.out) |->
                            Write(num, "content", print_target.out[i])]
  /\ IF print_target.res.tag = "Ok"
       THEN NextTarget
       ELSE pc' = "exit" /\ result' = print_target.res /\ UNCHANGED <<num, totals>>
  /\ UNCHANGED <<earlier, overflow_checks, cells, parsevars, idxvars, argv, fs, config,
                 stderr>>

Next == GetArgs \/ RunOpenErr \/ RunOpenOk \/ RunCount \/ RunPrint
Spec == Init /\ [][Next]_vars

\* run called a second time with the same Config over the same files, after
\* the first call has ended; what the first call wrote and returned is kept
RunAgain ==
  /\ pc = "exit"
  /\ config.tag = "Ok"
  /\ earlier = <<>>
  /\ earlier' = <<[stdout |-> stdout, stderr |-> stderr, result |-> result]>>
  /\ pc' = "open"
  /\ num' = 0
  /\ totals' = Uncalled
  /\ stdout' = <<>>
  /\ stderr' = <<>>
  /\ result' = Uncalled
  /\ UNCHANGED <<overflow_checks, cells, parsevars, idxvars, argv, fs, config>>

NextAgain ==
  GetArgs \/ RunOpenErr \/ RunOpenOk \/ RunCount \/ RunPrint \/ RunAgain
SpecAgain == Init /\ [][NextAgain]_vars

\* print_lines and print_bytes called on a stream of any bytes, with any
\* selection and any non-negative total; result keeps what the call returned
\* and did
InitPrint ==
  /\ overflow_checks \in BOOLEAN
  /\ ParseIdle
  /\ take_val \in TakeValue
  /\ total \in 0..I64_MAX
  /\ start = Uncalled
  /\ argv = [lines |-> None, bytes |-> None, quiet |-> FALSE, files |-> <<>>]
  /\ fs \in [Names(1) -> {RegularFile(d) : d \in Contents}]
  /\ config = Uncalled
  /\ pc = "call"
  /\ num = 0
  /\ totals = Uncalled
  /\ stdout = <<>>
  /\ stderr = <<>>
  /\ result = Uncalled
  /\ earlier = <<>>

PrintLines ==
  /\ pc = "call"
  /\ LET r == print_lines(fs[Name(1)].data, take_val, total)
     IN /\ result' = r
        /\ stdout' = [i \in 1..Len(r.out) |-> Write(0, "content", r.out[i])]
  /\ start' = get_start_index(take_val, total)
  /\ pc' = "lines"
  /\ UNCHANGED <<earlier, overflow_checks, cells, parsevars, take_val, total, argv, fs,
                 config, num, totals, stderr>>

PrintBytes ==
  /\ pc = "call"
  /\ LET r == print_bytes(fs[Name(1)].data, take_val, total)
     IN /\ result' = r
        /\ stdout' = [i \in 1..Len(r.out) |-> Write(0, "content", r.out[i])]
  /\ start' = get_start_index(take_val, total)
  /\ pc' = "bytes"
  /\ UNCHANGED <<earlier, overflow_checks, cells, parsevars, take_val, total, argv, fs,
                 config, num, totals, stderr>>

NextPrint == PrintLines \/ PrintBytes
SpecPrint == InitPrint /\ [][NextPrint]_vars

\* ------------------------------------------------------------------ claims
\* what a text denotes, read independently of the parser
AllDigits(t) == \A i \in 1..Len(t) : t[i] \in Digits
RECURSIVE DecValue(_)
DecValue(t) ==
  IF t = <<>> THEN 0
  ELSE 10 * DecValue(SubSeq(t, 1, Len(t) - 1)) + to_digit(t[Len(t)])
IsBare(t) == t # <<>> /\ AllDigits(t)
IsSigned(t) == Len(t) >= 2 /\ t[1] \in {"+", "-"} /\ AllDigits(Rest(t))
SignedValue(t) == IF t[1] = "-" THEN -DecValue(Rest(t)) ELSE DecValue(Rest(t))
IsI64Text(t) ==
  \/ IsBare(t) /\ DecValue(t) <= I64_MAX
  \/ IsSigned(t) /\ SignedValue(t) \in I64_MIN..I64_MAX
IsFromStart(tv) == tv.tag = "TakeNum" /\ tv.n >= 1
IsFromEnd(tv) == tv.tag = "TakeNum" /\ tv.n < 0
Returned == start # Uncalled
Parsed == parsed # Uncalled

\* the run's selector text, its mode, and what was written for a target
ActiveText ==
  IF argv.bytes # None THEN argv.bytes.v
  ELSE IF argv.lines # None THEN argv.lines.v
  ELSE DEFAULT_LINES
ByteMode == argv.bytes # None
Magnitude(t) == IF IsBare(t) THEN DecValue(t) ELSE DecValue(Rest(t))
IsFromEndText(t) ==
  IsI64Text(t) /\ (IsBare(t) \/ t[1] = "-") /\ Magnitude(t) >= 1
RECURSIVE Concat(_)
Concat(ss) == IF ss = <<>> THEN <<>> ELSE Head(ss) \o Concat(Tail(ss))
IsContentOf(w, i) == w.num = i /\ w.kind = "content"
EmittedFor(i) ==
  Concat([j \in 1..Len(stdout) |->
            IF IsContentOf(stdout[j], i) THEN stdout[j].bytes ELSE <<>>])
Min(a, b) == IF a <= b THEN a ELSE b

\* units of a content, read independently of the engine: a line ends after
\* each '\n', and a non-empty rest after the last '\n' is a line too
LineCount(d) ==
  Cardinality({i \in 1..Len(d) : d[i] = LF})
  + (IF d # <<>> /\ d[Len(d)] # LF THEN 1 ELSE 0)
UnitCount(d) == IF ByteMode THEN Len(d) ELSE LineCount(d)
LineStarts(d) == {0} \cup {i \in 1..(Len(d) - 1) : d[i] = LF}
LastUnits(d, m) ==
  IF m = 0 THEN <<>>
  ELSE IF ByteMode THEN Drop(d, Len(d) - m)
  ELSE Drop(d, CHOOSE c \in LineStarts(d) : LineCount(Drop(d, c)) = m)
IsReadable(i) == fs[argv.files[i]].kind = "file"
DataOf(i) == fs[argv.files[i]].data

\* C1: end to end, with a from-end selection of magnitude k >= 1 (bare "k"
\* or "-k"), what the finished program has emitted for a readable file of T
\* units is exactly the file's last min(k, T) units, in file order.
C1_FromEndEmitsLastUnits ==
  (pc = "exit" /\ IsFromEndText(ActiveText)) =>
    \A i \in 1..Len(argv.files) :
      IsReadable(i) =>
        EmittedFor(i - 1) =
          LastUnits(DataOf(i), Min(Magnitude(ActiveText), UnitCount(DataOf(i))))

\* C2: for a from-start selection TakeNum(n), n >= 1, and any total >= 0,
\* get_start_index returns None exactly when n > total and Some(n - 1)
\* otherwise.
C2_FromStartIndex ==
  (Returned /\ IsFromStart(take_val)) =>
    /\ (start = None) <=> (take_val.n > total)
    /\ (take_val.n <= total) => (start = Some(take_val.n - 1))
C2_Witness ==
  /\ IsFromStart(take_val) /\ take_val.n >= 2 /\ take_val.n = total
  /\ start = Some(total - 1)

\* C3: for a from-end selection TakeNum(n), n < 0, whose magnitude exceeds
\* total, get_start_index returns Some(0), for every representable n down to
\* i64::MIN.
C3_FromEndBeyondTotal ==
  (Returned /\ IsFromEnd(take_val) /\ -take_val.n > total) => start = Some(0)

\* C4: for a from-end selection TakeNum(n), n < 0, with 0 < |n| <= total,
\* get_start_index returns Some(total - |n|).
C4_FromEndWithinTotal ==
  (Returned /\ IsFromEnd(take_val) /\ -take_val.n <= total) =>
    start = Some(total - (-take_val.n))
C4_Witness ==
  /\ IsFromEnd(take_val) /\ -take_val.n < total /\ take_val.n < -1
  /\ start = Some(total + take_val.n)

\* C5: for TakeNum(0), which the texts "0" and "-0" produce, get_start_index
\* returns None for every total >= 0.
C5_ZeroTakesNothing ==
  /\ parse_num(<<"0">>) = Ok(TakeNum(0))
  /\ parse_num(<<"-", "0">>) = Ok(TakeNum(0))
  /\ (Returned /\ take_val = TakeNum(0)) => start = None
C5_Witness == take_val = TakeNum(0) /\ total > 0 /\ start = None

C7_BareIsNegated ==
  (Parsed /\ IsBare(val) /\ DecValue(val) <= I64_MAX) =>
    parsed = Ok(TakeNum(-DecValue(val)))
C7_Witness ==
  /\ IsBare(val) /\ DecValue(val) = I64_MAX
  /\ parsed = Ok(TakeNum(I64_MIN + 1))

\* C8: a text of a sign followed by decimal digits, of nonzero signed value
\* v within the i64 range, parses to TakeNum(v), the sign as written.
C8_SignedIsKept ==
  (Parsed /\ IsSigned(val) /\ SignedValue(val) # 0
     /\ SignedValue(val) \in I64_MIN..I64_MAX) =>
    parsed = Ok(TakeNum(SignedValue(val)))
C8_Witness ==
  /\ IsSigned(val) /\ val[1] = "-" /\ SignedValue(val) = I64_MIN
  /\ parsed = Ok(TakeNum(I64_MIN))

\* C9: every accepted text of a '+' followed by digits of value zero parses
\* to PlusZero, and no '+'-prefixed text parses to TakeNum(0).
C9_PlusZeroByValue ==
  (Parsed /\ IsSigned(val) /\ val[1] = "+") =>
    /\ (SignedValue(val) = 0) => parsed = Ok(PlusZero)
    /\ parsed # Ok(TakeNum(0))

\* C10: a text that is not an optionally signed decimal integer, or whose
\* value is outside the i64 range, is rejected with an error whose message
\* is the text itself.
C10_RejectEchoesText == (Parsed /\ ~IsI64Text(val)) => parsed = Err(val)
C10_Witness ==
  /\ IsBare(val) /\ DecValue(val) = I64_MAX + 1
  /\ parsed = Err(val)

\* C11: parse_num does not overflow at the signed boundary: the text of
\* i64::MIN parses to TakeNum(i64::MIN), in no build does the call panic, a
\* signed text is stored as written (not negated), and a bare text, the only
\* one negated, has a value in 0..=i64::MAX whose negation is representable.
C11_NoOverflowAtBoundary ==
  Parsed =>
    /\ parsed # Panic
    /\ (val = to_string(I64_MIN)) => parsed = Ok(TakeNum(I64_MIN))
    /\ (parsed.tag = "Ok" /\ parsed.v.tag = "TakeNum" /\ IsSigned(val)) =>
         parsed.v.n = SignedValue(val)
    /\ (parsed.tag = "Ok" /\ IsBare(val)) =>
         /\ DecValue(val) \in 0..I64_MAX
         /\ parsed.v = TakeNum(-DecValue(val))
         /\ -DecValue(val) \in (I64_MIN + 1)..0
C11_Witness ==
  /\ overflow_checks
  /\ val = to_string(I64_MIN)
  /\ parsed = Ok(TakeNum(I64_MIN))

\* C12: for every selection the parser can produce and every total in
\* 0..=i64::MAX, get_start_index does no overflowing arithmetic: the call
\* does not panic, the magnitude taken of a negative n is its mathematical
\* magnitude, and no negative value is converted to the unsigned result (a
\* negative i64 converts to a value above i64::MAX).
C12_NoOverflowInIndex ==
  Returned =>
    /\ start # Panic
    /\ IsFromEnd(take_val) => i64_abs(take_val.n).v = -take_val.n
    /\ (start # Panic /\ start # None) => start.v <= I64_MAX

\* the bytes one print_lines or print_bytes call wrote, and the stream it read
Printed == Concat([j \in 1..Len(stdout) |-> stdout[j].bytes])
Stream == fs[Name(1)].data
\* the lines of d with 0-based index >= s, terminators included
LinesFrom(d, s) ==
  IF s >= LineCount(d) THEN <<>>
  ELSE Drop(d, CHOOSE c \in LineStarts(d) :
                 LineCount(Drop(d, c)) = LineCount(d) - s)

\* C13: print_lines on a stream of any bytes: when the start index is
\* Some(s), the output is exactly the lines with 0-based index >= s, in
\* order, byte for byte with their terminators, one write per line and none
\* for a line with index < s; when the start index is None nothing is written.
C13_LinesFromIndex ==
  pc = "lines" =>
    /\ start = None => stdout = <<>>
    /\ (start # None /\ start # Panic) =>
         /\ Printed = LinesFrom(Stream, start.v)
         /\ Len(stdout) = IF start.v >= LineCount(Stream) THEN 0
                          ELSE LineCount(Stream) - start.v

\* C14: print_bytes on a stream of any bytes: when the start index is
\* Some(s), the output is exactly the bytes from offset s to the end, byte
\* for byte; when the start index is None nothing is written and no seek is
\* made.
C14_BytesFromOffset ==
  pc = "bytes" =>
    /\ start = None => (stdout = <<>> /\ result.seeks = <<>>)
    /\ (start # None /\ start # Panic) => Printed = Drop(Stream, start.v)

\* the header line of a display name, and where the run stands
HeaderLine(name) == <<61, 61, 62, 32>> \o name \o <<32, 60, 61, 61, 10>>
TargetCount == Len(argv.files)
TargetIds == 0..(TargetCount - 1)
\* File::open has returned Ok for target i (0-based) in the run so far
Opened(i) ==
  /\ config.tag = "Ok"
  /\ IsReadable(i + 1)
  /\ \/ i < num
     \/ i = num /\ pc \in {"count", "print"}
     \/ i = num /\ pc = "exit"
HeadersOf(i) ==
  {j \in 1..Len(stdout) : stdout[j].num = i /\ stdout[j].kind = "header"}

\* C15: a header `==> name <==` is written for a target iff the list has
\* more than one entry, quiet is unset and the target opened successfully;
\* it is written once, before any content of that target. With one target
\* or with quiet the output holds no header and no separator, only content.
C15_HeaderIffSeveral ==
  \A i \in TargetIds :
    /\ Cardinality(HeadersOf(i)) =
         IF TargetCount > 1 /\ ~argv.quiet /\ Opened(i) THEN 1 ELSE 0
    /\ \A j \in HeadersOf(i) :
         /\ stdout[j].bytes \in {HeaderLine(argv.files[i + 1]),
                                 <<LF>> \o HeaderLine(argv.files[i + 1])}
         /\ \A k \in 1..Len(stdout) : IsContentOf(stdout[k], i) => j < k
    /\ (TargetCount = 1 \/ argv.quiet) =>
         \A k \in 1..Len(stdout) : stdout[k].kind = "content"
C15_Witness ==
  /\ pc = "exit"
  /\ TargetCount = 2
  /\ ~argv.quiet
  /\ Opened(0) /\ Opened(1)
  /\ Cardinality(HeadersOf(1)) = 1
  /\ EmittedFor(0) # <<>> /\ EmittedFor(1) # <<>>

\* the output up to and including the k-th write, and the newlines it ends in
OutputUpTo(k) == Concat([j \in 1..k |-> stdout[j].bytes])
RECURSIVE TrailingLFs(_)
TrailingLFs(b) ==
  IF b = <<>> \/ b[Len(b)] # LF THEN 0
  ELSE 1 + TrailingLFs(SubSeq(b, 1, Len(b) - 1))
HeaderWrites == {j \in 1..Len(stdout) : stdout[j].kind = "header"}
IsFirstHeader(j) == \A k \in HeaderWrites : j <= k
\* what the output holds before the "==>" of the header written as write j
BeforeArrow(j) ==
  OutputUpTo(j - 1)
  \o SubSeq(stdout[j].bytes, 1,
            Len(stdout[j].bytes) - Len(HeaderLine(argv.files[stdout[j].num + 1])))

\* C16 as claimed: with several targets and quiet unset, whatever the
\* contents and the open failures, nothing precedes the first header written
\* (the output does not begin with a blank line), and every later header is
\* preceded by exactly one blank line after the previous file's output.
C16_OneBlankLineBetween ==
  (TargetCount > 1 /\ ~argv.quiet) =>
    \A j \in HeaderWrites :
      IF IsFirstHeader(j) THEN BeforeArrow(j) = <<>>
      ELSE TrailingLFs(BeforeArrow(j)) = 2

\* C16 amended: with several targets and quiet unset, the header of the
\* first target of the list is written with nothing before it, and the
\* header of a target at any later list position is written with exactly one
\* newline byte before it, whether or not an earlier target was opened and
\* whatever the earlier output ends with.
C16_NewlineBeforeLaterHeaders ==
  (TargetCount > 1 /\ ~argv.quiet) =>
    \A j \in HeaderWrites :
      stdout[j].bytes =
        (IF stdout[j].num > 0 THEN <<LF>> ELSE <<>>)
        \o HeaderLine(argv.files[stdout[j].num + 1])
C16_Witness ==
  /\ TargetCount > 1 /\ ~argv.quiet
  /\ ~IsReadable(1)
  /\ HeadersOf(1) # {}
  /\ OutputUpTo(Len(stdout))[1] = LF

\* run has dealt with target i (0-based): its open failed and was reported,
\* or its passes were run, to their end or to their failure
Processed(i) == i < num \/ (i = num /\ pc = "exit" /\ config.tag = "Ok")
IoFailed == pc = "exit" /\ config.tag = "Ok" /\ result.tag = "Err"

\* C18: an I/O failure while counting or streaming an opened file ends only
\* that file's output: when run has ended, every target of the list has been
\* processed, also after such a failure, and run has not returned at the
\* failing target with later targets left.
C18_IoFailureKeepsBatch ==
  IoFailed => \A i \in TargetIds : Processed(i)

DiagnosticsOf(i) ==
  {j \in 1..Len(stderr) : stderr[j].file = argv.files[i + 1]}

\* C17: a target that cannot be opened does not abort the batch: when run
\* has ended, exactly one diagnostic names that target, no header and no
\* content of it is on the output, and every other target of the list has
\* been processed.
C17_OpenFailureSkipsTarget ==
  (pc = "exit" /\ config.tag = "Ok") =>
    \A i \in TargetIds :
      ~IsReadable(i + 1) =>
        /\ Cardinality(DiagnosticsOf(i)) = 1
        /\ \A j \in 1..Len(stdout) : stdout[j].num # i
        /\ \A k \in TargetIds \ {i} : Processed(k)

\* C19: an invalid selector is fatal before any file is processed: get_args
\* returns the error "illegal line count -- <text>" or "illegal byte count --
\* <text>" and no Config, main ends with it, run is never entered, no target
\* is opened or counted and nothing is written to either channel.
C19_InvalidSelectorIsFatal ==
  (pc # "args" /\ ~IsI64Text(ActiveText)) =>
    /\ config = Err(<<IF ByteMode THEN "illegal byte count -- "
                      ELSE "illegal line count -- ", ActiveText>>)
    /\ result = config
    /\ pc = "exit"
    /\ num = 0
    /\ totals = Uncalled
    /\ stdout = <<>>
    /\ stderr = <<>>
C19_Witness ==
  /\ pc = "exit"
  /\ ByteMode
  /\ ~IsI64Text(ActiveText)
  /\ config.tag = "Err"
  /\ \E i \in 1..TargetCount : IsReadable(i)

\* the content writes made for target i (0-based), in order
ContentOf(i) ==
  LET ws == SelectSeq(stdout, LAMBDA w : IsContentOf(w, i))
  IN [j \in 1..Len(ws) |-> ws[j].bytes]
ByteOutput(i) ==
  print_bytes(DataOf(i + 1), config.v.bytes.v, Len(DataOf(i + 1))).out
LineOutput(i) ==
  print_lines(DataOf(i + 1), config.v.lines, LineCount(DataOf(i + 1))).out

\* C20: for each opened file whose output pass has run, exactly one mode
\* ran: with a byte selector in the Config the writes are those of
\* print_bytes with the byte selector and the file's byte total, whatever
\* the line selector (the default 10) is; without one they are those of
\* print_lines with the line selector and the file's line total.
C20_OneModePerFile ==
  config.tag = "Ok" =>
    \A i \in TargetIds :
      (i < num /\ IsReadable(i + 1)) =>
        ContentOf(i) = IF config.v.bytes # None THEN ByteOutput(i)
                       ELSE LineOutput(i)
C20_Witness ==
  /\ config.tag = "Ok"
  /\ config.v.bytes # None
  /\ \E i \in TargetIds :
       /\ i < num /\ IsReadable(i + 1)
       /\ ContentOf(i) # <<>>
       /\ ContentOf(i) = ByteOutput(i)
       /\ ContentOf(i) # LineOutput(i)

\* a write is one whole line: not empty, with no '\n' before its last byte
IsOneLine(b) == b # <<>> /\ \A k \in 1..(Len(b) - 1) : b[k] # LF
IsSuffix(b, d) == Len(b) <= Len(d) /\ b = Drop(d, Len(d) - Len(b))
\* the sink holds the targets' output in list order, a header before its
\* content; in line mode a target's writes are consecutive whole lines of
\* its file in file order, in byte mode there is at most one write
OutputInOrder ==
  /\ \A j, k \in 1..Len(stdout) :
       j < k =>
         /\ stdout[j].num <= stdout[k].num
         /\ stdout[j].num = stdout[k].num => stdout[k].kind = "content"
  /\ \A j, k \in 1..Len(stderr) :
       j < k => \E a, b \in 1..TargetCount :
                  a < b /\ stderr[j].file = argv.files[a]
                        /\ stderr[k].file = argv.files[b]
  /\ config.tag = "Ok" =>
       \A i \in TargetIds :
         IF config.v.bytes # None THEN Len(ContentOf(i)) <= 1
         ELSE /\ \A k \in 1..Len(ContentOf(i)) : IsOneLine(ContentOf(i)[k])
              /\ ContentOf(i) # <<>> =>
                   IsSuffix(Concat(ContentOf(i)), DataOf(i + 1))

\* C21: run processes the targets in the order given, one at a time: every
\* step only appends to the output, what it appends belongs to the target
\* being processed, the target index never goes back, and the sink holds
\* everything of target i before anything of target j > i, with the units of
\* one file in ascending position.
C21_TargetsInOrder ==
  [][/\ SubSeq(stdout', 1, Len(stdout)) = stdout
     /\ SubSeq(stderr', 1, Len(stderr)) = stderr
     /\ num' >= num
     /\ \A k \in (Len(stdout) + 1)..Len(stdout') : stdout'[k].num = num
     /\ OutputInOrder']_vars
C21_Witness ==
  /\ pc = "exit"
  /\ TargetCount = 2
  /\ HeadersOf(0) # {} /\ HeadersOf(1) # {}
  /\ Len(ContentOf(0)) = 2
  /\ Len(ContentOf(1)) >= 1

\* C22: for any byte content of a readable file, count_lines_bytes returns
\* (total_lines, total_bytes), both non-negative: the number of bytes, and
\* the number of '\n'-terminated lines plus one for a non-empty unterminated
\* last line ((0, 0) for an empty file), in line mode and byte mode alike.
C22_TotalsOfAnyContent ==
  (config.tag = "Ok" /\ (pc = "print" \/ totals # Uncalled)) =>
    totals = Ok(<<LineCount(DataOf(num + 1)), Len(DataOf(num + 1))>>)

\* C23: for a fixed total, get_start_index is monotonic on from-end
\* selections: for negative n, n2 with |n| <= |n2| the index for n2 is at
\* most the index for n, and the index is 0 for every |n| >= total.
C23_FromEndMonotonic ==
  (Returned /\ IsFromEnd(take_val)) =>
    /\ start.tag = "Some"
    /\ \A n2 \in I64_MIN..(-1) :
         n2 <= take_val.n =>
           /\ get_start_index(TakeNum(n2), total).tag = "Some"
           /\ get_start_index(TakeNum(n2), total).v <= start.v
    /\ -take_val.n >= total => start = Some(0)

OwnTotals(i) == <<LineCount(DataOf(i + 1)), Len(DataOf(i + 1))>>
\* the bytes of the writes a step appends to the output
Appended ==
  [k \in 1..(Len(stdout') - Len(stdout)) |-> stdout'[Len(stdout) + k].bytes]
WritesContent == \E k \in (Len(stdout) + 1)..Len(stdout') :
                   stdout'[k].kind = "content"

\* C26: for each opened file the passes are sequential and per-file: totals
\* are set once per target, by the count pass of that target, before any
\* content of it is written; content is written only by the output pass,
\* when the totals held are those of that same file, and it is what the
\* active mode gives for that file and its own total; totals are dropped
\* when run moves to the next target; the Config (selections, quiet) never
\* changes once get_args returned it.
C26_PassesPerFile ==
  [][/\ config.tag = "Ok" => config' = config
     /\ (totals' # totals /\ totals' # Uncalled) =>
          /\ pc = "count"
          /\ totals = Uncalled
          /\ ContentOf(num) = <<>>
          /\ totals'.tag = "Ok" => totals'.v = OwnTotals(num)
     /\ WritesContent =>
          /\ pc = "print"
          /\ totals = Ok(OwnTotals(num))
          /\ ContentOf(num) = <<>>
          /\ Appended = IF config.v.bytes # None THEN ByteOutput(num)
                        ELSE LineOutput(num)
     /\ num' # num => totals' = Uncalled]_vars
C26_Witness ==
  /\ pc = "print"
  /\ num = 1
  /\ IsReadable(1) /\ IsReadable(2)
  /\ totals = Ok(OwnTotals(1))
  /\ OwnTotals(0)[1] # OwnTotals(1)[1]
  /\ OwnTotals(0)[2] # OwnTotals(1)[2]
  /\ ContentOf(0) # <<>>

C28_IndexWithinTotal ==
  (Returned /\ start # None /\ start # Panic) =>
    /\ start.v \in 0..total
    /\ total > 0 => start.v < total

====
